---- MODULE Spec2Model ----
(***************************************************************************)
(* Model of scrape.py: the geocode cache (load / save), the partition of   *)
(* the records into cache hits and API rows, the threaded cache lookup,    *)
(* the sequential API loop with its three attempts per record, the attach  *)
(* loop and the final save of the cache.                                   *)
(*                                                                         *)
(* Strings are sequences of one-character strings.  A float is modelled    *)
(* as an exact decimal [m, e] standing for m / 10^e, kept normalised (no   *)
(* trailing zero in the fraction); the modelled fragment of float() and    *)
(* str() is plain decimal notation (optional sign, digits, at most one     *)
(* point), without exponents, inf, nan, blanks or a negative zero.         *)
(* A csv file is modelled as the list of its rows, a row as the list of    *)
(* its fields.  A record keeps the fields the geocoding reads.  The        *)
(* provider either answers a query with its location, answers None, or     *)
(* raises, anew at every call.  Once a run is done the script can be run   *)
(* again on the same page, with the cache file the previous run left.      *)
(***************************************************************************)
EXTENDS Integers, Sequences, FiniteSets, TLC

(***************************************************************************)
(* Bounds of the model.                                                    *)
(***************************************************************************)
MaxRecords == 2        \* longest record list
MaxRows == 2           \* longest persisted cache file, in rows
MaxRuns == 2           \* runs of the script over the same input

\* ThreadPoolExecutor(max_workers=8)
max_workers == 8

(***************************************************************************)
(* Values.                                                                 *)
(***************************************************************************)
None == [tag |-> "None"]

Float(m, e) == [tag |-> "float", m |-> m, e |-> e]

Digits == <<"0", "1", "2", "3", "4", "5", "6", "7", "8", "9">>

IsDigit(c) == \E d \in 1..10 : Digits[d] = c

DigitVal(c) == (CHOOSE d \in 1..10 : Digits[d] = c) - 1

RECURSIVE Pow10(_)
Pow10(n) == IF n = 0 THEN 1 ELSE 10 * Pow10(n - 1)

RECURSIVE DigitsToNat(_)
DigitsToNat(s) ==
    IF s = <<>> THEN 0
    ELSE 10 * DigitsToNat(SubSeq(s, 1, Len(s) - 1)) + DigitVal(s[Len(s)])

RECURSIVE NatToDigits(_)
NatToDigits(n) ==
    IF n < 10 THEN <<Digits[n + 1]>>
    ELSE NatToDigits(n \div 10) \o <<Digits[(n % 10) + 1]>>

RECURSIVE Normalize(_, _)
Normalize(m, e) ==
    IF e > 0 /\ m % 10 = 0 THEN Normalize(m \div 10, e - 1) ELSE Float(m, e)

\* float(s): the parsed value, or ValueError
ValueError == [tag |-> "ValueError"]

PointAt(s) == IF \E p \in 1..Len(s) : s[p] = "."
              THEN CHOOSE p \in 1..Len(s) : s[p] = "." /\ \A r \in 1..(p - 1) : s[r] # "."
              ELSE 0

ParseFloat(s) ==
    LET neg  == Len(s) > 0 /\ s[1] = "-"
        body == IF Len(s) > 0 /\ s[1] \in {"-", "+"} THEN Tail(s) ELSE s
        p    == PointAt(body)
        ip   == IF p = 0 THEN body ELSE SubSeq(body, 1, p - 1)
        fp   == IF p = 0 THEN <<>> ELSE SubSeq(body, p + 1, Len(body))
        ds   == ip \o fp
    IN IF Len(ds) >= 1 /\ \A r \in 1..Len(ds) : IsDigit(ds[r])
       THEN LET n == DigitsToNat(ds)
            IN Normalize(IF neg THEN 0 - n ELSE n, Len(fp))
       ELSE ValueError

\* str(x) of a float x, as csv.writer writes it
RECURSIVE PadZeros(_, _)
PadZeros(s, n) == IF Len(s) >= n THEN s ELSE PadZeros(<<"0">> \o s, n)

FloatStr(v) ==
    LET a  == IF v.m < 0 THEN 0 - v.m ELSE v.m
        ip == NatToDigits(a \div Pow10(v.e))
        fp == IF v.e = 0 THEN <<"0">> ELSE PadZeros(NatToDigits(a % Pow10(v.e)), v.e)
    IN (IF v.m < 0 THEN <<"-">> ELSE <<>>) \o ip \o <<".">> \o fp

(***************************************************************************)
(* geocode_cache: a dict, modelled in insertion order as a sequence of     *)
(* entries with distinct keys.                                             *)
(***************************************************************************)
InCache(cache, addr) == \E p \in 1..Len(cache) : cache[p].addr = addr

CacheGet(cache, addr) == cache[CHOOSE p \in 1..Len(cache) : cache[p].addr = addr].coord

\* variant: the dict replaced by one holding the new entry only
CachePutAlone(cache, addr, coord) == <<[addr |-> addr, coord |-> coord]>>

CachePut(cache, addr, coord) ==
    IF InCache(cache, addr)
    THEN [p \in 1..Len(cache) |->
             IF cache[p].addr = addr THEN [addr |-> addr, coord |-> coord] ELSE cache[p]]
    ELSE Append(cache, [addr |-> addr, coord |-> coord])

\* one row of load_geocode_cache's loop: the cache after the row, or err when
\* float() raised ValueError
LoadRow(cache, row) ==
    IF Len(row) = 3
    THEN IF row[2] # <<>> /\ row[3] # <<>>
         THEN LET lat == ParseFloat(row[2])
                  lon == ParseFloat(row[3])
              IN IF lat = ValueError \/ lon = ValueError
                 THEN [err |-> TRUE, cache |-> cache]
                 ELSE [err |-> FALSE, cache |-> CachePut(cache, row[1], <<lat, lon>>)]
         ELSE [err |-> FALSE, cache |-> cache]
    ELSE [err |-> FALSE, cache |-> cache]

\* load_geocode_cache: [err |-> FALSE, cache |-> the dict], or err |-> TRUE when
\* float() raised ValueError, which nothing catches
RECURSIVE LoadRows(_, _)
LoadRows(cache, rows) ==
    IF rows = <<>> THEN [err |-> FALSE, cache |-> cache]
    ELSE LET c == LoadRow(cache, Head(rows))
         IN IF c.err THEN c ELSE LoadRows(c.cache, Tail(rows))

load_geocode_cache(exists, rows) ==
    IF exists THEN LoadRows(<<>>, rows) ELSE [err |-> FALSE, cache |-> <<>>]

\* variant: the two coordinate columns written in the wrong order
save_swapped(cache) ==
    [p \in 1..Len(cache) |->
        <<cache[p].addr, FloatStr(cache[p].coord[2]), FloatStr(cache[p].coord[1])>>]

save_geocode_cache(cache) ==
    [p \in 1..Len(cache) |->
        <<cache[p].addr, FloatStr(cache[p].coord[1]), FloatStr(cache[p].coord[2])>>]

(***************************************************************************)
(* The records parsed from the page and their three attempts.              *)
(***************************************************************************)
Australia == <<"A", "u", "s", "t", "r", "a", "l", "i", "a">>

CommaSp == <<",", " ">>

\* full_address = f"{business_address}, {suburb}, {state} {postcode}, Australia"
FullAddress(business_address, suburb, state, postcode) ==
    business_address \o CommaSp \o suburb \o CommaSp \o state \o <<" ">> \o postcode
        \o CommaSp \o Australia

\* the dict appended to data (the fields the geocoding does not read are left out)
Record(business_address, suburb, state, postcode) ==
    ("Business address" :> business_address) @@ ("Suburb" :> suburb) @@
    ("State" :> state) @@ ("Postcode" :> postcode) @@
    ("Full address" :> FullAddress(business_address, suburb, state, postcode))

PostcodeAttempt(row) == row["Postcode"] \o CommaSp \o Australia

SuburbAttempt(row) ==
    row["Suburb"] \o CommaSp \o row["State"] \o <<" ">> \o row["Postcode"]
        \o CommaSp \o Australia

\* variant: the suburb attempt tried first
AttemptsSuburbFirst(row) == <<SuburbAttempt(row), row["Full address"], PostcodeAttempt(row)>>

Attempts(row) == <<row["Full address"], PostcodeAttempt(row), SuburbAttempt(row)>>

(***************************************************************************)
(* Inputs of the model.                                                    *)
(***************************************************************************)
Rec12 == Record(<<"1">>, <<"S">>, <<"N">>, <<"2">>)

\* no business address; shares its postcode and suburb attempts with Rec12
Rec02 == Record(<<>>, <<"S">>, <<"N">>, <<"2">>)

Rec13 == Record(<<"1">>, <<"S">>, <<"N">>, <<"3">>)

Records == {Rec12, Rec02, Rec13}

RECURSIVE SeqsUpTo(_, _)
SeqsUpTo(S, n) ==
    IF n = 0 THEN {<<>>}
    ELSE LET shorter == SeqsUpTo(S, n - 1)
         IN shorter \cup {Append(q, x) : q \in {r \in shorter : Len(r) = n - 1}, x \in S}

RecordLists == SeqsUpTo(Records, MaxRecords)

\* rows a persisted geocode_cache.csv may hold: two well-formed ones ("0" is not
\* what str() writes back), one with an empty latitude, one of two columns and
\* one whose latitude is no number
CacheRows ==
    { <<Rec12["Full address"], <<"-", "3", "3", ".", "8">>, <<"1", "5", "1", ".", "2">> >>,
      <<PostcodeAttempt(Rec12), <<"0">>, <<"0">> >>,
      <<SuburbAttempt(Rec13), <<>>, <<"1", "5", "1", ".", "2">> >>,
      <<PostcodeAttempt(Rec13), <<"1", "5", "1", ".", "2">> >>,
      <<SuburbAttempt(Rec13), <<"x">>, <<"2">> >> }

CacheFiles == SeqsUpTo(CacheRows, MaxRows)

\* the (latitude, longitude) pairs the provider may answer a query with, when it
\* answers: (0.0, 0.0) for a postcode query, (-33.8, 151.2) for the others
Locations(q) ==
    IF Len(q) = Len(PostcodeAttempt(Rec12))
    THEN { <<Float(0, 0), Float(0, 0)>> }
    ELSE { <<Float(0 - 338, 1), Float(1512, 1)>> }

(***************************************************************************)
(* State.  Indices are 1-based (record i of the model is data[i-1]).       *)
(***************************************************************************)
VARIABLES
    pc,              \* position of the main thread in the script
    run,             \* number of the current run of the script
    file_exists,     \* os.path.exists(CACHE_FILE)
    file_rows,       \* rows of geocode_cache.csv
    html_data,       \* the records data-raw.html parses to, the same in every run
    data,            \* data
    geocode_cache,   \* geocode_cache
    cache_results,   \* cache_results
    api_indices,     \* api_indices
    api_rows,        \* api_rows
    results,         \* results
    futures,         \* futures, in submission order
    i_loop,          \* loop variable of the partition and submit loops
    idx,             \* position of the API loop in api_indices
    k,               \* position of the attempt loop in attempts
    enriched,        \* enriched
    missing_coords,  \* missing_coords
    events,          \* history: the geocode calls and sleeps of this run, in order
    outcome,         \* how the geocode call of the step just taken ended, if it failed
    loaded,          \* history: geocode_cache as load_geocode_cache returned it
    start_rows,      \* history: the rows of the cache file when this run started
    start_exists,    \* history: whether the cache file existed when this run started
    writes,          \* history: number of times this run has written the cache file
    first_results,   \* history: results at the end of the first run
    first_called     \* history: the records a geocode call resolved in the first run

vars == <<pc, run, file_exists, file_rows, html_data, data, geocode_cache, cache_results,
          api_indices, api_rows, results, futures, i_loop, idx, k, enriched,
          missing_coords, events, outcome, loaded, start_rows, start_exists,
          writes, first_results, first_called>>

\* an unset slot of cache_results / results ([None] * len(data))
Empty == <<>>

\* variant: lat, lon start as 0.0, 0.0
NoCoordZero == <<Float(0, 0), Float(0, 0)>>

NoCoord == <<None, None>>

\* the state of the script before its first statement after parsing
Startup(rows, recs) ==
    /\ pc = "load"
    /\ data = recs
    /\ geocode_cache = <<>>
    /\ cache_results = <<>>
    /\ api_indices = <<>>
    /\ api_rows = <<>>
    /\ results = <<>>
    /\ futures = <<>>
    /\ i_loop = 1
    /\ idx = 1
    /\ k = 1
    /\ enriched = <<>>
    /\ missing_coords = 0
    /\ events = <<>>
    /\ outcome = "none"
    /\ loaded = <<>>
    /\ start_rows = rows
    /\ writes = 0

Init ==
    /\ run = 1
    /\ file_exists \in BOOLEAN
    /\ file_rows \in CacheFiles
    /\ file_exists = FALSE => file_rows = <<>>
    /\ html_data \in RecordLists
    /\ Startup(file_rows, html_data)
    /\ start_exists = file_exists
    /\ first_results = <<>>
    /\ first_called = {}

(***************************************************************************)
(* geocode_cache = load_geocode_cache(); a ValueError of float() ends the  *)
(* run.                                                                    *)
(***************************************************************************)
Load ==
    /\ pc = "load"
    /\ LET r == load_geocode_cache(file_exists, file_rows)
       IN IF r.err
          THEN /\ pc' = "crashed"
               /\ UNCHANGED <<geocode_cache, loaded, cache_results>>
          ELSE /\ pc' = "partition"
               /\ geocode_cache' = r.cache
               /\ loaded' = r.cache
               /\ cache_results' = [i \in 1..Len(data) |-> Empty]
    /\ UNCHANGED <<run, file_exists, file_rows, html_data, data, api_indices, api_rows,
                   results, futures, i_loop, idx, k, enriched, missing_coords, events,
                   outcome, start_rows, start_exists, writes, first_results,
                   first_called>>

(***************************************************************************)
(* The partition loop: one record per step.                                *)
(***************************************************************************)
\* variant: the last attempt of the record that is in the cache
LastCached(cache, row) ==
    IF \E a \in 1..3 : InCache(cache, Attempts(row)[a])
    THEN CHOOSE a \in 1..3 : /\ InCache(cache, Attempts(row)[a])
                             /\ \A b \in (a + 1)..3 : ~InCache(cache, Attempts(row)[b])
    ELSE 0

\* the first attempt of the record that is in the cache, 0 when there is none
FirstCached(cache, row) ==
    IF \E a \in 1..3 : InCache(cache, Attempts(row)[a])
    THEN CHOOSE a \in 1..3 : /\ InCache(cache, Attempts(row)[a])
                             /\ \A b \in 1..(a - 1) : ~InCache(cache, Attempts(row)[b])
    ELSE 0

\* variant: partition also stores a coordinate found under a fallback attempt
\* under the full address
PartitionCaching ==
    /\ pc = "partition"
    /\ IF i_loop <= Len(data)
       THEN LET row == data[i_loop]
                a   == FirstCached(geocode_cache, row)
            IN /\ IF a # 0
                  THEN /\ cache_results' = [cache_results EXCEPT ![i_loop] =
                                               CacheGet(geocode_cache, Attempts(row)[a])]
                       /\ geocode_cache' =
                              CachePut(geocode_cache, Attempts(row)[1],
                                       CacheGet(geocode_cache, Attempts(row)[a]))
                       /\ UNCHANGED <<api_indices, api_rows>>
                  ELSE /\ api_indices' = Append(api_indices, i_loop)
                       /\ api_rows' = Append(api_rows, row)
                       /\ UNCHANGED <<cache_results, geocode_cache>>
               /\ i_loop' = i_loop + 1
               /\ UNCHANGED <<pc, results>>
       ELSE /\ pc' = "submit"
            /\ results' = [i \in 1..Len(data) |-> Empty]
            /\ i_loop' = 1
            /\ UNCHANGED <<cache_results, api_indices, api_rows, geocode_cache>>
    /\ UNCHANGED <<run, file_exists, file_rows, html_data, data, futures,
                   idx, k, enriched, missing_coords, events, outcome, loaded,
                   start_rows, start_exists, writes, first_results, first_called>>

Partition ==
    /\ pc = "partition"
    /\ IF i_loop <= Len(data)
       THEN LET row == data[i_loop]
                a   == FirstCached(geocode_cache, row)
            IN /\ IF a # 0
                  THEN /\ cache_results' = [cache_results EXCEPT ![i_loop] =
                                               CacheGet(geocode_cache, Attempts(row)[a])]
                       /\ UNCHANGED <<api_indices, api_rows>>
                  ELSE /\ api_indices' = Append(api_indices, i_loop)
                       /\ api_rows' = Append(api_rows, row)
                       /\ UNCHANGED cache_results
               /\ i_loop' = i_loop + 1
               /\ UNCHANGED <<pc, results>>
       ELSE /\ pc' = "submit"
            /\ results' = [i \in 1..Len(data) |-> Empty]
            /\ i_loop' = 1
            /\ UNCHANGED <<cache_results, api_indices, api_rows>>
    /\ UNCHANGED <<run, file_exists, file_rows, html_data, data, geocode_cache, futures,
                   idx, k, enriched, missing_coords, events, outcome, loaded,
                   start_rows, start_exists, writes, first_results, first_called>>

(***************************************************************************)
(* The threaded lookup for cache hits: the main thread submits one future  *)
(* per record with a cache result, the pool's workers run cache_lookup,    *)
(* and the main thread stores what as_completed yields.                    *)
(***************************************************************************)
\* variant: a future is submitted for every record
SubmitAll ==
    /\ pc = "submit"
    /\ IF i_loop <= Len(data)
       THEN /\ futures' = Append(futures, [i |-> i_loop, state |-> "pending",
                                           res |-> Empty, yielded |-> FALSE])
            /\ i_loop' = i_loop + 1
            /\ pc' = pc
       ELSE /\ pc' = "as_completed"
            /\ UNCHANGED <<futures, i_loop>>
    /\ UNCHANGED <<run, file_exists, file_rows, html_data, data, geocode_cache,
                   cache_results, api_indices, api_rows, results, idx, k, enriched,
                   missing_coords, events, outcome, loaded, start_rows,
                   start_exists, writes, first_results, first_called>>

Submit ==
    /\ pc = "submit"
    /\ IF i_loop <= Len(data)
       THEN /\ futures' = IF cache_results[i_loop] # Empty
                          THEN Append(futures, [i |-> i_loop, state |-> "pending",
                                                res |-> Empty, yielded |-> FALSE])
                          ELSE futures
            /\ i_loop' = i_loop + 1
            /\ pc' = pc
       ELSE /\ pc' = "as_completed"
            /\ UNCHANGED <<futures, i_loop>>
    /\ UNCHANGED <<run, file_exists, file_rows, html_data, data, geocode_cache,
                   cache_results, api_indices, api_rows, results, idx, k, enriched,
                   missing_coords, events, outcome, loaded, start_rows,
                   start_exists, writes, first_results, first_called>>

Running == {f \in 1..Len(futures) : futures[f].state = "running"}

\* a worker takes the oldest pending future off the queue
WorkerStart(f) ==
    /\ futures[f].state = "pending"
    /\ \A g \in 1..(f - 1) : futures[g].state # "pending"
    /\ Cardinality(Running) < max_workers
    /\ futures' = [futures EXCEPT ![f].state = "running"]
    /\ UNCHANGED <<pc, run, file_exists, file_rows, html_data, data, geocode_cache,
                   cache_results, api_indices, api_rows, results, i_loop, idx, k,
                   enriched, missing_coords, events, outcome, loaded, start_rows,
                   start_exists, writes, first_results, first_called>>

\* variant: every lookup returns the cache result of the first record
cache_lookup_first(i) == <<i, cache_results[1]>>

\* cache_lookup(i) returns (i, cache_results[i])
cache_lookup(i) == <<i, cache_results[i]>>

WorkerFinish(f) ==
    /\ futures[f].state = "running"
    /\ futures' = [futures EXCEPT ![f].state = "finished",
                                  ![f].res = cache_lookup(futures[f].i)]
    /\ UNCHANGED <<pc, run, file_exists, file_rows, html_data, data, geocode_cache,
                   cache_results, api_indices, api_rows, results, i_loop, idx, k,
                   enriched, missing_coords, events, outcome, loaded, start_rows,
                   start_exists, writes, first_results, first_called>>

\* for fut in as_completed(futures): i, res = fut.result(); results[i] = res
AsCompleted(f) ==
    /\ pc = "as_completed"
    /\ futures[f].state = "finished"
    /\ ~futures[f].yielded
    /\ results' = [results EXCEPT ![futures[f].res[1]] = futures[f].res[2]]
    /\ futures' = [futures EXCEPT ![f].yielded = TRUE]
    /\ UNCHANGED <<pc, run, file_exists, file_rows, html_data, data, geocode_cache,
                   cache_results, api_indices, api_rows, i_loop, idx, k, enriched,
                   missing_coords, events, outcome, loaded, start_rows,
                   start_exists, writes, first_results, first_called>>

\* every future was yielded: the with block ends
PoolDone ==
    /\ pc = "as_completed"
    /\ \A f \in 1..Len(futures) : futures[f].yielded
    /\ pc' = IF Len(api_indices) >= 1 THEN "attempt" ELSE "attach"
    /\ idx' = 1
    /\ k' = 1
    /\ UNCHANGED <<run, file_exists, file_rows, html_data, data, geocode_cache,
                   cache_results, api_indices, api_rows, results, futures, i_loop,
                   enriched, missing_coords, events, outcome, loaded, start_rows,
                   start_exists, writes, first_results, first_called>>

(***************************************************************************)
(* The sequential API loop: one step per iteration of the attempt loop.    *)
(***************************************************************************)
\* variant: the position in api_indices used as the record's index
RowIndexByPosition(indices, pos) == pos

\* i of "for idx, (i, row) in enumerate(zip(api_indices, api_rows))"
RowIndex(indices, pos) == indices[pos]

\* variant: the attempt loop without its cache test
NeverCached(cache, attempt) == FALSE

\* "if attempt in geocode_cache" at the head of the attempt loop
AttemptCached(cache, attempt) == InCache(cache, attempt)

Attempt == Attempts(api_rows[idx])[k]

\* history entries: ok tells whether the call returned a location
CallEvent(ok, coord) ==
    [kind |-> "call", i |-> RowIndex(api_indices, idx), k |-> k, q |-> Attempt,
     ok |-> ok, coord |-> coord]

SleepEvent ==
    [kind |-> "sleep", i |-> RowIndex(api_indices, idx), k |-> k, q |-> Attempt,
     ok |-> FALSE, coord |-> NoCoord]

\* the attempt loop is left: results[i] = (lat, lon), and the for loop goes to its
\* next row or ends
EndRow(coord) ==
    /\ results' = [results EXCEPT ![RowIndex(api_indices, idx)] = coord]
    /\ idx' = idx + 1
    /\ k' = 1
    /\ pc' = IF idx + 1 <= Len(api_indices) THEN "attempt" ELSE "attach"

\* variant: after a first attempt without location the second attempt is skipped
NoLocationSkipping ==
    /\ events' = events \o <<CallEvent(FALSE, NoCoord), SleepEvent>>
    /\ IF k < 2
       THEN /\ k' = 3
            /\ UNCHANGED <<results, idx, pc>>
       ELSE IF k < 3
            THEN /\ k' = k + 1
                 /\ UNCHANGED <<results, idx, pc>>
            ELSE EndRow(NoCoord)

\* variant: no sleep after the last attempt of a row
NoLocationNoLastSleep ==
    /\ events' = IF k < 3
                 THEN events \o <<CallEvent(FALSE, NoCoord), SleepEvent>>
                 ELSE Append(events, CallEvent(FALSE, NoCoord))
    /\ IF k < 3
       THEN /\ k' = k + 1
            /\ UNCHANGED <<results, idx, pc>>
       ELSE EndRow(NoCoord)

\* the call gave no location: "if attempt not in geocode_cache: time.sleep(1)",
\* then the next attempt, or after the last one the row ends with (None, None)
NoLocation ==
    /\ events' = IF ~InCache(geocode_cache, Attempt)
                 THEN events \o <<CallEvent(FALSE, NoCoord), SleepEvent>>
                 ELSE Append(events, CallEvent(FALSE, NoCoord))
    /\ IF k < 3
       THEN /\ k' = k + 1
            /\ UNCHANGED <<results, idx, pc>>
       ELSE EndRow(NoCoord)

\* the attempt is in the cache: lat, lon = geocode_cache[attempt]; break
AttemptFromCache ==
    /\ pc = "attempt"
    /\ AttemptCached(geocode_cache, Attempt)
    /\ EndRow(CacheGet(geocode_cache, Attempt))
    /\ outcome' = "none"
    /\ UNCHANGED <<run, file_exists, file_rows, html_data, data, geocode_cache,
                   cache_results, api_indices, api_rows, futures, i_loop, enriched,
                   missing_coords, events, loaded, start_rows, start_exists, writes,
                   first_results, first_called>>

\* variant: the cache file written after every store
GeocodeLocationSaving ==
    /\ pc = "attempt"
    /\ ~AttemptCached(geocode_cache, Attempt)
    /\ \E loc \in Locations(Attempt) :
       /\ events' = Append(events, CallEvent(TRUE, loc))
       /\ outcome' = "none"
       /\ geocode_cache' = CachePut(geocode_cache, Attempt, loc)
       /\ EndRow(loc)
       /\ file_exists' = TRUE
       /\ file_rows' = save_geocode_cache(geocode_cache')
       /\ writes' = writes + 1
       /\ UNCHANGED <<run, html_data, data, cache_results, api_indices, api_rows, futures,
                      i_loop, enriched, missing_coords, loaded, start_rows, start_exists,
                      first_results, first_called>>

\* variant: the location is not stored in the cache
GeocodeLocationNotStoring ==
    /\ pc = "attempt"
    /\ ~AttemptCached(geocode_cache, Attempt)
    /\ \E loc \in Locations(Attempt) :
       /\ events' = Append(events, CallEvent(TRUE, loc))
       /\ outcome' = "none"
       /\ geocode_cache' = geocode_cache
       /\ EndRow(loc)
       /\ UNCHANGED <<run, file_exists, file_rows, html_data, data, cache_results,
                      api_indices, api_rows, futures, i_loop, enriched, missing_coords,
                      loaded, start_rows, start_exists, writes, first_results,
                      first_called>>

\* geolocator.geocode(attempt) returns a location: it is stored in the cache; break
GeocodeLocation ==
    /\ pc = "attempt"
    /\ ~AttemptCached(geocode_cache, Attempt)
    /\ \E loc \in Locations(Attempt) :
       /\ events' = Append(events, CallEvent(TRUE, loc))
       /\ outcome' = "none"
       /\ geocode_cache' = CachePut(geocode_cache, Attempt, loc)
       /\ EndRow(loc)
       /\ UNCHANGED <<run, file_exists, file_rows, html_data, data, cache_results,
                      api_indices, api_rows, futures, i_loop, enriched, missing_coords,
                      loaded, start_rows, start_exists, writes, first_results,
                      first_called>>

\* geolocator.geocode(attempt) returns None
GeocodeNone ==
    /\ pc = "attempt"
    /\ ~AttemptCached(geocode_cache, Attempt)
    /\ NoLocation
    /\ outcome' = "no result"
    /\ UNCHANGED <<run, file_exists, file_rows, html_data, data, geocode_cache,
                   cache_results, api_indices, api_rows, futures, i_loop, enriched,
                   missing_coords, loaded, start_rows, start_exists, writes,
                   first_results, first_called>>

\* variant: the exception of geocode is not caught
GeocodeRaiseUncaught ==
    /\ pc = "attempt"
    /\ ~AttemptCached(geocode_cache, Attempt)
    /\ events' = Append(events, CallEvent(FALSE, NoCoord))
    /\ outcome' = "raised"
    /\ pc' = "crashed"
    /\ UNCHANGED <<run, file_exists, file_rows, html_data, data, geocode_cache,
                   cache_results, api_indices, api_rows, results, futures, i_loop, idx,
                   k, enriched, missing_coords, loaded, start_rows, start_exists,
                   writes, first_results, first_called>>

\* geolocator.geocode(attempt) raises: except Exception: pass
GeocodeRaise ==
    /\ pc = "attempt"
    /\ ~AttemptCached(geocode_cache, Attempt)
    /\ NoLocation
    /\ outcome' = "raised"
    /\ UNCHANGED <<run, file_exists, file_rows, html_data, data, geocode_cache,
                   cache_results, api_indices, api_rows, futures, i_loop, enriched,
                   missing_coords, loaded, start_rows, start_exists, writes,
                   first_results, first_called>>

(***************************************************************************)
(* Attach the results, count the missing coordinates, save the cache.      *)
(***************************************************************************)
\* row['Latitude'] = lat; row['Longitude'] = lon; del row['Full address']
Enrich(row, coord) ==
    [x \in (DOMAIN row \ {"Full address"}) \cup {"Latitude", "Longitude"} |->
        IF x = "Latitude" THEN coord[1]
        ELSE IF x = "Longitude" THEN coord[2]
        ELSE row[x]]

\* the attach loop; unpacking a slot that is still None raises TypeError.  The rows
\* are changed in place, so data sees the change too.
Attach ==
    /\ pc = "attach"
    /\ IF \E i \in 1..Len(data) : results[i] = Empty
       THEN /\ pc' = "crashed"
            /\ UNCHANGED <<data, enriched>>
       ELSE /\ data' = [i \in 1..Len(data) |-> Enrich(data[i], results[i])]
            /\ enriched' = [i \in 1..Len(data) |-> Enrich(data[i], results[i])]
            /\ pc' = "report"
    /\ outcome' = "none"
    /\ UNCHANGED <<run, file_exists, file_rows, html_data, geocode_cache,
                   cache_results, api_indices, api_rows, results, futures, i_loop, idx,
                   k, missing_coords, events, loaded, start_rows, start_exists, writes,
                   first_results, first_called>>

\* variant: sum(1 for lat, lon in results if not lat or not lon)
CountMissingFalsy(res) ==
    Cardinality({i \in 1..Len(res) :
                    \/ res[i][1] = None
                    \/ res[i][2] = None
                    \/ res[i][1].m = 0
                    \/ res[i][2].m = 0})

\* sum(1 for lat, lon in results if lat is None or lon is None)
CountMissing(res) ==
    Cardinality({i \in 1..Len(res) : res[i][1] = None \/ res[i][2] = None})

\* missing_coords is computed and cleaned_providers.csv written
Report ==
    /\ pc = "report"
    /\ missing_coords' = CountMissing(results)
    /\ pc' = "save"
    /\ UNCHANGED <<run, file_exists, file_rows, html_data, data, geocode_cache,
                   cache_results, api_indices, api_rows, results, futures, i_loop, idx,
                   k, enriched, events, outcome, loaded, start_rows, start_exists,
                   writes, first_results, first_called>>

\* save_geocode_cache(geocode_cache), the last statement of the script
Save ==
    /\ pc = "save"
    /\ file_exists' = TRUE
    /\ file_rows' = save_geocode_cache(geocode_cache)
    /\ writes' = writes + 1
    /\ pc' = "done"
    /\ UNCHANGED <<run, html_data, data, geocode_cache, cache_results, api_indices,
                   api_rows, results, futures, i_loop, idx, k, enriched, missing_coords,
                   events, outcome, loaded, start_rows, start_exists,
                   first_results, first_called>>

\* the script is run again on the same page, with the cache file the run left
Rerun ==
    /\ pc = "done"
    /\ run < MaxRuns
    /\ run' = run + 1
    /\ pc' = "load"
    /\ data' = html_data
    /\ geocode_cache' = <<>>
    /\ cache_results' = <<>>
    /\ api_indices' = <<>>
    /\ api_rows' = <<>>
    /\ results' = <<>>
    /\ futures' = <<>>
    /\ i_loop' = 1
    /\ idx' = 1
    /\ k' = 1
    /\ enriched' = <<>>
    /\ missing_coords' = 0
    /\ events' = <<>>
    /\ outcome' = "none"
    /\ loaded' = <<>>
    /\ start_rows' = file_rows
    /\ start_exists' = file_exists
    /\ writes' = 0
    /\ first_results' = IF run = 1 THEN results ELSE first_results
    /\ first_called' = IF run = 1
                       THEN {events[e].i : e \in {x \in 1..Len(events) : events[x].ok}}
                       ELSE first_called
    /\ UNCHANGED <<file_exists, file_rows, html_data>>

Next ==
    \/ Load
    \/ Partition
    \/ Submit
    \/ \E f \in 1..Len(futures) : WorkerStart(f)
    \/ \E f \in 1..Len(futures) : WorkerFinish(f)
    \/ \E f \in 1..Len(futures) : AsCompleted(f)
    \/ PoolDone
    \/ AttemptFromCache
    \/ GeocodeLocation
    \/ GeocodeNone
    \/ GeocodeRaise
    \/ Attach
    \/ Report
    \/ Save
    \/ Rerun

Spec == Init /\ [][Next]_vars

(***************************************************************************)
(* Helpers of the properties.                                              *)
(***************************************************************************)
\* the three candidate queries of a parsed record, in priority order
Candidates(row) ==
    <<row["Full address"],
      row["Postcode"] \o CommaSp \o Australia,
      row["Suburb"] \o CommaSp \o row["State"] \o <<" ">> \o row["Postcode"]
          \o CommaSp \o Australia>>

Absent == <<None, None>>

IsCallOf(e, i) == e.kind = "call" /\ e.i = i

\* the geocode calls made for record i, in order
CallsOf(evs, i) == LET Test(e) == IsCallOf(e, i) IN SelectSeq(evs, Test)

Merged == pc \in {"attach", "report", "save", "done"}

\* the API rows the loop has finished
Finished == {j \in 1..Len(api_indices) : j < idx}

\* the three geocode calls of record i were made and none returned a location
AllFailed(i) ==
    LET calls == CallsOf(events, i)
    IN Len(calls) = 3 /\ \A p \in 1..3 : ~calls[p].ok

\* a row of the cache file with three columns and two numeric coordinates
WellFormed(row) ==
    /\ Len(row) = 3
    /\ row[2] # <<>> /\ row[3] # <<>>
    /\ ParseFloat(row[2]) # ValueError /\ ParseFloat(row[3]) # ValueError

(***************************************************************************)
(* C1: once the run reaches the merge (the attach loop and after), results *)
(* has one slot per input record, every slot holds a pair, and the pair of *)
(* slot i is absent or the cached coordinate of one of the candidates of   *)
(* input record i; enriched holds the input records in input order, each   *)
(* with the pair of its own slot, and has all of them once the loop ends.  *)
(***************************************************************************)
C1_OneResultPerRecordInOrder ==
    Merged =>
        /\ Len(results) = Len(html_data)
        /\ \A i \in 1..Len(results) :
              /\ results[i] # Empty
              /\ Len(results[i]) = 2
              /\ \/ results[i] = Absent
                 \/ LET c == Candidates(html_data[i])
                    IN \E a \in 1..3 :
                          /\ InCache(geocode_cache, c[a])
                          /\ CacheGet(geocode_cache, c[a]) = results[i]
        /\ Len(enriched) <= Len(html_data)
        /\ pc # "attach" => Len(enriched) = Len(html_data)
        /\ \A i \in 1..Len(enriched) :
              /\ DOMAIN enriched[i] =
                    (DOMAIN html_data[i] \ {"Full address"}) \cup {"Latitude", "Longitude"}
              /\ \A x \in DOMAIN html_data[i] \ {"Full address"} :
                    enriched[i][x] = html_data[i][x]
              /\ <<enriched[i]["Latitude"], enriched[i]["Longitude"]>> = results[i]

\* a finished run over a cache-hit record followed by an API record
WitnessC1 ==
    /\ pc = "done"
    /\ Len(html_data) = 2
    /\ cache_results[1] # Empty
    /\ api_indices = <<2>>
    /\ html_data[1] # html_data[2]
    /\ results[2] # Absent

(***************************************************************************)
(* C2: between two consecutive geocode calls of a run there is a sleep,    *)
(* however the earlier call ended.                                         *)
(***************************************************************************)
C2_SleepBetweenCalls ==
    \A e \in 1..(Len(events) - 1) :
        events[e].kind = "call" => events[e + 1].kind = "sleep"

(***************************************************************************)
(* C3: a geocode call is never made for a query that is a key of the cache *)
(* at the moment of the call, and an attempt that is in the cache causes   *)
(* neither a call nor a sleep.                                             *)
(***************************************************************************)
C3_NoCallForCachedQuery ==
    [][ /\ (Len(events') > Len(events) /\ events'[Len(events) + 1].kind = "call")
           => ~InCache(geocode_cache, events'[Len(events) + 1].q)
        /\ (pc = "attempt" /\ InCache(geocode_cache, Attempts(api_rows[idx])[k]))
           => events' = events ]_vars

\* an API row was resolved without a successful call of its own: its attempt was
\* stored in the cache by an earlier row of the same run
WitnessC3 ==
    \E j \in Finished :
        /\ results[api_indices[j]] # Absent
        /\ \A e \in 1..Len(events) : events[e].i = api_indices[j] => ~events[e].ok

(***************************************************************************)
(* C4: the geocode calls made for a record are its candidates in priority  *)
(* order (full address, postcode, suburb), only the last of them can have  *)
(* returned a location, and once the record is finished after a call that  *)
(* returned a location its coordinate is that location.                    *)
(***************************************************************************)
C4_AttemptsInOrderUntilFirstSuccess ==
    \A j \in 1..Len(api_indices) :
        LET i     == api_indices[j]
            calls == CallsOf(events, i)
            c     == Candidates(html_data[i])
        IN /\ Len(calls) <= 3
           /\ \A p \in 1..Len(calls) :
                 /\ calls[p].q = c[p]
                 /\ p < Len(calls) => ~calls[p].ok
           /\ (j \in Finished /\ Len(calls) > 0 /\ calls[Len(calls)].ok)
                 => results[i] = calls[Len(calls)].coord

\* A and B returned no result, C returned a location
WitnessC4 ==
    \E j \in Finished :
        LET calls == CallsOf(events, api_indices[j])
        IN /\ Len(calls) = 3
           /\ ~calls[1].ok /\ ~calls[2].ok /\ calls[3].ok
           /\ results[api_indices[j]] = calls[3].coord

(***************************************************************************)
(* C5: when a run is done, reading back the cache file it wrote gives, for *)
(* every query a geocode call resolved in the run, that query with the     *)
(* coordinate the call returned; and in a later run over the same input    *)
(* every record the first run resolved is a cache hit of the partition, is *)
(* not an API row and has no geocode call.                                 *)
(***************************************************************************)
C5_ResolvedQueriesPersistAndHitCache ==
    /\ pc = "done" =>
          LET r == load_geocode_cache(file_exists, file_rows)
          IN /\ ~r.err
             /\ \A e \in 1..Len(events) :
                   events[e].ok => /\ InCache(r.cache, events[e].q)
                                   /\ CacheGet(r.cache, events[e].q) = events[e].coord
    /\ run > 1 => pc # "crashed"
    /\ (run > 1 /\ pc \notin {"load", "partition"}) =>
          \A i \in 1..Len(first_results) :
              first_results[i] # Absent =>
                  /\ cache_results[i] # Empty
                  /\ \A j \in 1..Len(api_indices) : api_indices[j] # i
                  /\ \A e \in 1..Len(events) : events[e].i # i

\* a second run that ended without any geocode call, after a first run in which
\* a geocode call resolved a record
WitnessC5 ==
    /\ run = 2
    /\ pc = "done"
    /\ first_called # {}
    /\ events = <<>>

(***************************************************************************)
(* C6: a record whose three geocode calls all gave no location ends with   *)
(* an absent coordinate, and when its row ends none of its three queries   *)
(* is in the cache; missing_coords is the number of records whose          *)
(* coordinate is absent.                                                   *)
(***************************************************************************)
C6_UnresolvedRecordAbsentAndCounted ==
    /\ \A j \in Finished :
          AllFailed(api_indices[j]) =>
              /\ results[api_indices[j]] = Absent
              /\ j = idx - 1 =>
                    \A a \in 1..3 :
                        ~InCache(geocode_cache, Candidates(html_data[api_indices[j]])[a])
    /\ pc \in {"save", "done"} =>
          missing_coords = Cardinality({i \in 1..Len(results) : results[i] = Absent})

\* a finished run of two records: one with three failed calls, one resolved
WitnessC6 ==
    /\ pc = "done"
    /\ Len(html_data) = 2
    /\ missing_coords = 1
    /\ \E j \in Finished : AllFailed(api_indices[j])

(***************************************************************************)
(* C7: a geocode call that raises does not end the run and does what a     *)
(* call without result does: nothing is stored, the sleep follows, the     *)
(* next attempt of the record is another query, and after the third        *)
(* attempt the record gets the absent coordinate and the loop goes on; the *)
(* API loop never ends in a crash.                                         *)
(***************************************************************************)
C7_RaiseIsNoResult ==
    /\ [](pc = "crashed" => events = <<>>)
    /\ [][ outcome' = "raised" =>
              /\ pc' # "crashed"
              /\ geocode_cache' = geocode_cache
              /\ Len(events') = Len(events) + 2
              /\ events'[Len(events) + 1].kind = "call"
              /\ ~events'[Len(events) + 1].ok
              /\ events'[Len(events) + 1].q = Candidates(html_data[api_indices[idx]])[k]
              /\ events'[Len(events) + 2].kind = "sleep"
              /\ IF k < 3
                 THEN /\ pc' = "attempt" /\ idx' = idx /\ k' = k + 1
                      /\ results' = results
                      /\ Candidates(html_data[api_indices[idx]])[k + 1]
                            # Candidates(html_data[api_indices[idx]])[k]
                 ELSE /\ results' = [results EXCEPT ![api_indices[idx]] = Absent]
                      /\ idx' = idx + 1
                      /\ pc' = IF idx < Len(api_indices) THEN "attempt" ELSE "attach" ]_vars

\* the third attempt of the first API row raised and the loop is at the second row
WitnessC7 ==
    /\ outcome = "raised"
    /\ pc = "attempt"
    /\ idx = 2
    /\ k = 1
    /\ results[api_indices[1]] = Absent

(***************************************************************************)
(* C8: load_geocode_cache never fails: the rows that do not have three     *)
(* columns, or have an empty coordinate column, or a coordinate column     *)
(* that is no number are skipped, and the cache is what the other rows     *)
(* give.                                                                   *)
(***************************************************************************)
C8_LoadSkipsMalformedRows ==
    pc # "load" =>
        /\ pc # "crashed"
        /\ loaded = load_geocode_cache(start_exists, SelectSeq(start_rows, WellFormed)).cache

(***************************************************************************)
(* C9: within a run the cache only grows: after the load its entries stay  *)
(* where and what they are, the loaded ones included, and a step adds at   *)
(* most one entry, which maps the query of a geocode call made in that     *)
(* step to the location (no None in it) that the call returned; a call     *)
(* without location leaves the cache as it is.                             *)
(***************************************************************************)
C9_CacheOnlyGrows ==
    /\ [](pc \notin {"load", "crashed"} =>
             /\ Len(geocode_cache) >= Len(loaded)
             /\ SubSeq(geocode_cache, 1, Len(loaded)) = loaded)
    /\ [][ (run' = run /\ pc # "load") =>
              /\ Len(geocode_cache') >= Len(geocode_cache)
              /\ \A p \in 1..Len(geocode_cache) : geocode_cache'[p] = geocode_cache[p]
              /\ Len(geocode_cache') > Len(geocode_cache) =>
                    /\ Len(geocode_cache') = Len(geocode_cache) + 1
                    /\ Len(events') = Len(events) + 1
                    /\ events'[Len(events')].kind = "call"
                    /\ events'[Len(events')].ok
                    /\ geocode_cache'[Len(geocode_cache')] =
                          [addr |-> events'[Len(events')].q,
                           coord |-> events'[Len(events')].coord]
                    /\ events'[Len(events')].coord[1] # None
                    /\ events'[Len(events')].coord[2] # None
              /\ (Len(events') > Len(events) /\ ~events'[Len(events) + 1].ok) =>
                    geocode_cache' = geocode_cache ]_vars

\* a finished run that loaded entries, had a call without location and stored one
WitnessC9 ==
    /\ pc = "done"
    /\ Len(loaded) >= 1
    /\ Len(geocode_cache) > Len(loaded)
    /\ \E e \in 1..Len(events) : events[e].kind = "call" /\ ~events[e].ok

(***************************************************************************)
(* C10: until the run is done the cache file is what it was when the run   *)
(* started and the run has not written it; when the run is done it has     *)
(* written it once, and every record has its result.                       *)
(***************************************************************************)
C10_CacheFileWrittenOnceAtEnd ==
    /\ pc # "done" =>
          /\ writes = 0
          /\ file_rows = start_rows
          /\ file_exists = start_exists
    /\ pc = "done" =>
          /\ writes = 1
          /\ Len(results) = Len(html_data)
          /\ \A i \in 1..Len(results) : results[i] # Empty
          /\ Len(enriched) = Len(html_data)

\* a finished run whose geocode calls changed the cache file
WitnessC10 ==
    /\ pc = "done"
    /\ writes = 1
    /\ start_exists
    /\ file_rows # start_rows
    /\ \E e \in 1..Len(events) : events[e].ok

(***************************************************************************)
(* Helpers of the properties on the two phases.                            *)
(***************************************************************************)
\* the thread pool has ended
PoolEnded == pc \in {"attempt", "attach", "report", "save", "done"}

\* the partition loop has ended
Partitioned == pc \in {"submit", "as_completed"} \/ PoolEnded

\* the candidates of input record i that are keys of the cache as loaded
CachedAtLoad(i) ==
    LET c == Candidates(html_data[i]) IN {a \in 1..3 : InCache(loaded, c[a])}

\* what looking record i up in the loaded cache gives, one candidate after the
\* other in priority order
SequentialLookup(i) ==
    LET cached == CachedAtLoad(i)
        a == CHOOSE x \in cached : \A y \in cached : x <= y
    IN CacheGet(loaded, Candidates(html_data[i])[a])

(***************************************************************************)
(* C11: whatever the order in which the workers run and finish and         *)
(* as_completed yields, a slot that as_completed has written holds what    *)
(* looking the record up sequentially in the loaded cache gives, and once  *)
(* the pool has ended every record with a cached candidate has that        *)
(* coordinate in its slot; for records that are all cache-resident the     *)
(* whole result list is the sequential one.                                *)
(***************************************************************************)
C11_PoolResultsAreSequential ==
    /\ \A f \in 1..Len(futures) :
          futures[f].yielded =>
              /\ CachedAtLoad(futures[f].i) # {}
              /\ results[futures[f].i] = SequentialLookup(futures[f].i)
    /\ PoolEnded =>
          \A i \in 1..Len(html_data) :
              CachedAtLoad(i) # {} => results[i] = SequentialLookup(i)

\* two cache-resident records with different coordinates, the second one yielded
\* by as_completed before the first
WitnessC11 ==
    /\ pc = "as_completed"
    /\ Len(html_data) = 2
    /\ Len(futures) = 2
    /\ futures[2].yielded
    /\ ~futures[1].yielded
    /\ results[2] = cache_results[2]
    /\ cache_results[1] # cache_results[2]

(***************************************************************************)
(* C12: the coordinate of a record comes from a lower-priority candidate   *)
(* only if, for every higher-priority candidate, a geocode call made for   *)
(* this record gave no location.                                           *)
(***************************************************************************)
\* the position of the candidate the coordinate of API row i came from: the query
\* of its last call when that call returned a location, else the attempt found
\* in the cache after the calls
UsedByApi(i) ==
    LET calls == CallsOf(events, i)
    IN IF Len(calls) > 0 /\ calls[Len(calls)].ok
       THEN CHOOSE a \in 1..3 :
               /\ Candidates(html_data[i])[a] = calls[Len(calls)].q
               /\ \A b \in 1..(a - 1) : Candidates(html_data[i])[b] # calls[Len(calls)].q
       ELSE Len(calls) + 1

\* the position of the candidate the coordinate of cache-hit record i came from
UsedByPartition(i) ==
    LET c == Candidates(html_data[i])
        from == {a \in CachedAtLoad(i) : CacheGet(loaded, c[a]) = cache_results[i]}
    IN CHOOSE a \in from : \A b \in from : a <= b

Used(i) == IF cache_results[i] # Empty THEN UsedByPartition(i) ELSE UsedByApi(i)

FailedCallFor(i, b) ==
    LET q == Candidates(html_data[i])[b]
    IN \E e \in 1..Len(events) :
          /\ IsCallOf(events[e], i)
          /\ ~events[e].ok
          /\ events[e].q = q

\* the records that have their coordinate
Resolved == IF Partitioned
            THEN {i \in 1..Len(results) : results[i] # Empty /\ results[i] # Absent}
            ELSE {}

C12_LowerCandidateOnlyAfterFailedCalls ==
    \A i \in Resolved : \A b \in 1..(Used(i) - 1) : FailedCallFor(i, b)

(***************************************************************************)
(* C12, amended: the coordinate of a record comes from a lower-priority    *)
(* candidate only if every higher-priority candidate was absent from the   *)
(* cache as loaded and, when the record is an API row, a geocode call made *)
(* for this record gave no location for it; for a record with a cache      *)
(* result no geocode call is made at all.                                  *)
(***************************************************************************)
C12_LowerCandidateOnlyAfterMisses ==
    \A i \in Resolved :
        /\ LET cached == CachedAtLoad(i)
           IN \A b \in 1..(Used(i) - 1) :
                 /\ b \notin cached
                 /\ cache_results[i] = Empty => FailedCallFor(i, b)
        /\ cache_results[i] # Empty => \A e \in 1..Len(events) : events[e].i # i

\* a cache-hit record that took its second candidate though the first was not
\* tried, next to an API row that took its third candidate after two failed calls
WitnessC12 ==
    /\ pc = "done"
    /\ \E i \in Resolved : cache_results[i] # Empty /\ Used(i) = 2
    /\ \E i \in Resolved : cache_results[i] = Empty /\ Used(i) = 3

(***************************************************************************)
(* C13: once partition has ended, a record has a cache result exactly when *)
(* at least one of its three candidates is a key of the cache as loaded,   *)
(* the cache result is the coordinate of the highest-priority cached       *)
(* candidate and no geocode call is ever made for the record; a record is  *)
(* in api_indices exactly when none of its candidates is in the loaded     *)
(* cache; the classification does not change in the rest of the run.       *)
(***************************************************************************)
InApiIndices(i) == \E j \in 1..Len(api_indices) : api_indices[j] = i

ClassifiedByLoadedCache ==
    Partitioned =>
        \A i \in 1..Len(html_data) :
            LET cached == CachedAtLoad(i)
            IN /\ cache_results[i] # Empty <=> cached # {}
               /\ InApiIndices(i) <=> cached = {}
               /\ cached # {} =>
                     /\ cache_results[i] = SequentialLookup(i)
                     /\ \A e \in 1..Len(events) : events[e].i # i

C13_PartitionClassifiesByLoadedCache ==
    /\ []ClassifiedByLoadedCache
    /\ [][Partitioned /\ pc # "done" => UNCHANGED <<cache_results, api_indices, loaded>>]_vars

\* a finished run with a record whose first and second candidates are both in
\* the loaded cache with different coordinates, and an API row that was called
WitnessC13 ==
    /\ pc = "done"
    /\ \E i \in 1..Len(html_data) :
          /\ CachedAtLoad(i) = {1, 2}
          /\ CacheGet(loaded, Candidates(html_data[i])[1])
                # CacheGet(loaded, Candidates(html_data[i])[2])
          /\ results[i] = CacheGet(loaded, Candidates(html_data[i])[1])
    /\ \E i \in 1..Len(html_data) : InApiIndices(i) /\ Len(CallsOf(events, i)) > 0

(***************************************************************************)
(* C14: the API loop handles the rows of api_indices one at a time in      *)
(* increasing index, and when two API rows share a candidate string that a *)
(* call made for the earlier row resolved, the later row has that          *)
(* coordinate and no call is made for that string for the later row.       *)
(***************************************************************************)
\* api_indices increases and the events of a run are grouped by row, in order
ApiRowsInOrder ==
    /\ \A j1, j2 \in 1..Len(api_indices) : j1 < j2 => api_indices[j1] < api_indices[j2]
    /\ \A e \in 1..(Len(events) - 1) : events[e].i <= events[e + 1].i
    /\ \A e \in 1..Len(events) :
          \E j \in 1..Len(api_indices) : j <= idx /\ api_indices[j] = events[e].i

\* candidate string q, shared by the API rows at positions j1 < j2, was resolved
\* by call e made for the earlier row, and the loop has finished the later row
SharedResolved(j1, j2, e, q) ==
    /\ j1 < j2
    /\ j2 \in Finished
    /\ IsCallOf(events[e], api_indices[j1])
    /\ events[e].ok
    /\ events[e].q = q
    /\ \E a \in 1..3 : Candidates(html_data[api_indices[j2]])[a] = q

NoCallFor(i, q) == \A e \in 1..Len(events) : ~(IsCallOf(events[e], i) /\ events[e].q = q)

\* the API loop stays on its row or moves to the next one, and a call is made
\* for the row it is on
OneRowAtATime ==
    /\ pc = "attempt" /\ pc' = "attempt" => idx' \in {idx, idx + 1}
    /\ pc = "attempt" /\ events' # events =>
          /\ Len(events') > Len(events)
          /\ \A e \in (Len(events) + 1)..Len(events') : events'[e].i = api_indices[idx]

C14_LaterRowTakesSharedCoordinate ==
    /\ ApiRowsInOrder
    /\ \A j1, j2 \in 1..Len(api_indices) : \A e \in 1..Len(events) :
          SharedResolved(j1, j2, e, events[e].q) =>
              /\ results[api_indices[j2]] = events[e].coord
              /\ NoCallFor(api_indices[j2], events[e].q)

(***************************************************************************)
(* C14, amended: the API loop handles the rows of api_indices one at a     *)
(* time in increasing index, and when two API rows share a candidate       *)
(* string that a call made for the earlier row resolved, no call is made   *)
(* for that string for the later row, and the later row has that           *)
(* coordinate unless one of its higher-priority candidates resolved first, *)
(* in which case it has the coordinate of that candidate.                  *)
(***************************************************************************)
PositionOf(i, q) ==
    CHOOSE a \in 1..3 :
        /\ Candidates(html_data[i])[a] = q
        /\ \A b \in 1..(a - 1) : Candidates(html_data[i])[b] # q

LaterRowSkipsSharedCall ==
    /\ ApiRowsInOrder
    /\ \A j1, j2 \in 1..Len(api_indices) : \A e \in 1..Len(events) :
          SharedResolved(j1, j2, e, events[e].q) =>
              LET i2 == api_indices[j2]
                  p  == PositionOf(i2, events[e].q)
              IN /\ NoCallFor(i2, events[e].q)
                 /\ results[i2] # Absent
                 /\ IF \A b \in 1..(p - 1) : FailedCallFor(i2, b)
                    THEN results[i2] = events[e].coord /\ UsedByApi(i2) = p
                    ELSE UsedByApi(i2) < p

C14_LaterRowSkipsSharedCall ==
    /\ []LaterRowSkipsSharedCall
    /\ [][OneRowAtATime]_vars

\* the later of two API rows took the shared second candidate from the cache
\* after a failed call for its own first candidate
WitnessC14 ==
    /\ pc = "done"
    /\ Len(api_indices) = 2
    /\ \E e \in 1..Len(events) :
          /\ SharedResolved(1, 2, e, events[e].q)
          /\ PositionOf(api_indices[2], events[e].q) = 2
          /\ Len(CallsOf(events, api_indices[2])) = 1
          /\ results[api_indices[2]] = events[e].coord
          /\ html_data[1] # html_data[2]

(***************************************************************************)
(* C15: during the partition loop and the threaded lookup the cache is the *)
(* one load returned and no geocode call and no sleep has happened, so the *)
(* API loop starts with the cache as loaded; within a run the only steps   *)
(* that change the cache after the load are attempts of the API loop.      *)
(***************************************************************************)
C15_CacheReadOnlyBeforeApiLoop ==
    /\ [](pc \in {"partition", "submit", "as_completed"}
             => geocode_cache = loaded /\ events = <<>>)
    /\ [](pc = "attempt" /\ idx = 1 /\ k = 1 => geocode_cache = loaded)
    /\ [][geocode_cache' # geocode_cache => pc \in {"load", "attempt", "done"}]_vars

\* the API loop is about to start after a partition and a threaded lookup that
\* had cache hits to handle
WitnessC15 ==
    /\ pc = "attempt"
    /\ idx = 1
    /\ k = 1
    /\ events = <<>>
    /\ Len(futures) >= 1
    /\ \A f \in 1..Len(futures) : futures[f].yielded
    /\ geocode_cache = loaded
    /\ Len(loaded) >= 2

(***************************************************************************)
(* C16: a run never stops before the cache file is written at its end,     *)
(* and an API row causes at most 3 geocode calls and at most 3 sleeps, a   *)
(* record with a cache result none, so that a run makes at most 3 calls    *)
(* per API row in total.                                                   *)
(***************************************************************************)
EventsOf(i, kind) == {e \in 1..Len(events) : events[e].kind = kind /\ events[e].i = i}

AllCalls == {e \in 1..Len(events) : events[e].kind = "call"}

CallAndSleepBounds ==
    /\ \A e \in 1..Len(events) : InApiIndices(events[e].i)
    /\ \A i \in 1..Len(html_data) :
          /\ Cardinality(EventsOf(i, "call")) <= 3
          /\ Cardinality(EventsOf(i, "sleep")) <= 3
    /\ Cardinality(AllCalls) <= 3 * Len(api_indices)

\* the run has stopped on an uncaught exception
Stopped == pc = "crashed"

C16_RunEndsWithFlushWithinBounds ==
    /\ ~Stopped
    /\ pc = "done" => /\ writes = 1
                      /\ file_exists
                      /\ file_rows = save_geocode_cache(geocode_cache)
    /\ CallAndSleepBounds

(***************************************************************************)
(* C17: a coordinate (0.0, 0.0) is not treated as absent: a cache row with *)
(* the coordinates "0" and "0" is loaded as an entry of the cache, a       *)
(* record whose result is (0.0, 0.0), from the cache or from a call, has   *)
(* that coordinate in its output row, and missing_coords counts exactly    *)
(* the records whose candidates all failed, none of those at (0.0, 0.0).   *)
(***************************************************************************)
Zero == Float(0, 0)

ZeroZero == <<Zero, Zero>>

\* zero as a hand-written cache file has it and as save_geocode_cache writes it
ZeroTexts == {<<"0">>, <<"0", ".", "0">>}

IsZeroRow(row) == Len(row) = 3 /\ row[2] \in ZeroTexts /\ row[3] \in ZeroTexts

\* the rows of the file the run started with whose address is addr
RowsOf(addr) == {r \in 1..Len(start_rows) : start_rows[r][1] = addr}

C17_ZeroCoordinateIsNotAbsent ==
    /\ pc \notin {"load", "crashed"} =>
          \A r \in 1..Len(start_rows) :
              IsZeroRow(start_rows[r]) =>
                  /\ InCache(loaded, start_rows[r][1])
                  /\ (\A r2 \in RowsOf(start_rows[r][1]) : r2 <= r)
                        => CacheGet(loaded, start_rows[r][1]) = ZeroZero
    /\ pc \in {"report", "save", "done"} =>
          \A i \in 1..Len(results) :
              results[i] = ZeroZero =>
                  /\ enriched[i]["Latitude"] = Zero
                  /\ enriched[i]["Longitude"] = Zero
    /\ pc \in {"save", "done"} =>
          /\ missing_coords = Cardinality({i \in 1..Len(results) : AllFailed(i)})
          /\ \A i \in 1..Len(results) : AllFailed(i) => results[i] = Absent

\* a finished run with one record at (0.0, 0.0) from the cache row "0","0" and one
\* at (0.0, 0.0) from a geocode call, none of them counted as missing
WitnessC17 ==
    /\ pc = "done"
    /\ run = 1
    /\ \E r \in 1..Len(start_rows) :
          start_rows[r] = <<PostcodeAttempt(Rec12), <<"0">>, <<"0">> >>
    /\ Len(results) = 2
    /\ \E i, j \in 1..2 :
          /\ cache_results[i] = ZeroZero
          /\ results[i] = ZeroZero
          /\ cache_results[j] = Empty
          /\ \E e \in 1..Len(events) :
                IsCallOf(events[e], j) /\ events[e].ok /\ events[e].coord = ZeroZero
          /\ results[j] = ZeroZero
          /\ enriched[i]["Latitude"] = Zero
          /\ enriched[j]["Longitude"] = Zero
    /\ missing_coords = 0

(***************************************************************************)
(* C18: once partition has ended, the indices with a cache result and the  *)
(* indices of api_indices are disjoint and cover every record index, with  *)
(* api_indices increasing and without repetition; there is one future per  *)
(* index with a cache result; each slot of results is written once, from   *)
(* unset to a pair, by as_completed for an index with a cache result and   *)
(* by the API loop for an index of api_indices, and no slot is unset when  *)
(* the coordinates are attached.                                           *)
(***************************************************************************)
HitIndices == {i \in 1..Len(cache_results) : cache_results[i] # Empty}

ApiIndexSet == {api_indices[j] : j \in 1..Len(api_indices)}

PartitionIsExact ==
    Partitioned =>
        /\ HitIndices \cap ApiIndexSet = {}
        /\ HitIndices \cup ApiIndexSet = 1..Len(html_data)
        /\ \A j1, j2 \in 1..Len(api_indices) : j1 < j2 => api_indices[j1] < api_indices[j2]
        /\ Len(api_rows) = Len(api_indices)
        /\ Len(results) = Len(html_data)

OneFuturePerHit ==
    pc = "as_completed" \/ PoolEnded =>
        /\ {futures[f].i : f \in 1..Len(futures)} = HitIndices
        /\ \A f, g \in 1..Len(futures) : futures[f].i = futures[g].i => f = g

SlotsFilledInPhase ==
    /\ PoolEnded => \A i \in HitIndices : results[i] # Empty
    /\ pc = "attempt" =>
          \A j \in 1..Len(api_indices) : results[api_indices[j]] # Empty <=> j < idx
    /\ Merged => \A i \in 1..Len(results) : results[i] # Empty

\* a step that changes results within a run sets one unset slot
WritesOneUnsetSlot ==
    \E i \in 1..Len(results) :
        /\ Len(results') = Len(results)
        /\ results[i] = Empty
        /\ results'[i] # Empty
        /\ \A j \in 1..Len(results) : j # i => results'[j] = results[j]
        /\ \/ pc = "as_completed" /\ i \in HitIndices
           \/ pc = "attempt" /\ i = api_indices[idx]

C18_EachSlotWrittenOnceByOnePhase ==
    /\ [](PartitionIsExact /\ OneFuturePerHit /\ SlotsFilledInPhase)
    /\ [][results' # results /\ pc \notin {"partition", "done"} => WritesOneUnsetSlot]_vars

\* the coordinates are attached after one slot was written by as_completed and
\* the other by the API loop
WitnessC18 ==
    /\ pc = "report"
    /\ Len(results) = 2
    /\ Cardinality(HitIndices) = 1
    /\ Len(api_indices) = 1
    /\ Len(futures) = 1
    /\ futures[1].yielded
    /\ Len(CallsOf(events, api_indices[1])) >= 1
    /\ \A i \in 1..2 : results[i] # Empty

(***************************************************************************)
(* C19: a sleep happens right after each geocode call that returned no     *)
(* location or raised, the third attempt of a row included, and at no      *)
(* other time: the event after a call that returned a location is not a    *)
(* sleep, an attempt found in the cache causes no sleep, and the number of *)
(* sleeps equals the number of calls without location, for every record    *)
(* and for the run.                                                        *)
(***************************************************************************)
FailedCalls(i) == {e \in EventsOf(i, "call") : ~events[e].ok}

====
